---- MODULE Spec2Model ----
(***************************************************************************)
(* Model of the coffee-footprint ETL: the three cache-first fetchers of    *)
(* src/src/extract.py and the normalizer and join engine of                *)
(* src/src/transform.py.                                                   *)
(*                                                                         *)
(* Conventions.                                                            *)
(*  - A CSV file / DataFrame is a record [exists, cols, rows]: cols is the *)
(*    set of column headers and rows a sequence of records.  A missing     *)
(*    file and the value None are both NoTable.                            *)
(*  - A float cell is a record [k, n, d]: k = "num" is the rational n/d    *)
(*    (d > 0, reduced), k = "nan" is NaN/null, k = "inf" is +infinity.     *)
(*    Rounding of binary floating point is not modelled.                   *)
(*  - A function returns a record; the action that calls it assigns the    *)
(*    record's fields to the variables.                                    *)
(*  - Spec is the pipeline from an empty data directory against remote     *)
(*    sources that may change their answers; SpecTransform runs            *)
(*    transform_all on input files already in place; SpecNorm calls        *)
(*    normalize_country directly; SpecPop runs fetch_population against    *)
(*    every population server within the bounds.                           *)
(***************************************************************************)
EXTENDS Integers, Sequences, FiniteSets, TLC

VARIABLES
    consFile,       \* data/coffee_consumption_2023.csv   (FAO_CSV, CONSUMPTION_PATH)
    emisFile,       \* data/coffee_emission_water.csv     (EM_WATER_CSV, EMISSIONS_PATH)
    popFile,        \* data/population_2023.csv           (POP_CSV, POPULATION_PATH)
    outFile,        \* data/coffee_footprint_2023.csv     (OUTPUT_PATH)
    COUNTRY_CACHE,  \* transform.COUNTRY_CACHE: function from the names seen to their result
    consApi,        \* what FAO_API answers to the next request
    ghgApi,         \* what GHG_URL serves
    waterApi,       \* what WATER_URL serves
    popApi,         \* what WB_API serves: popApi[i] is the answer to page i
    last,           \* the last call: [op, cacheExisted, requests, raised, ret]
    normArg,        \* argument of the last direct normalize_country call
    normRet         \* its return value

vars == <<consFile, emisFile, popFile, outFile, COUNTRY_CACHE,
          consApi, ghgApi, waterApi, popApi, last, normArg, normRet>>

(***************************************************************************)
(* Floats                                                                  *)
(***************************************************************************)
NaN == [k |-> "nan", n |-> 0, d |-> 1]
Inf == [k |-> "inf", n |-> 1, d |-> 1]

RECURSIVE Gcd(_, _)
Gcd(a, b) == IF b = 0 THEN a ELSE Gcd(b, a % b)

\* the rational n/d, d > 0, n >= 0, in lowest terms
Rat(n, d) == LET g == Gcd(n, d) IN [k |-> "num", n |-> n \div g, d |-> d \div g]

Num(n) == [k |-> "num", n |-> n, d |-> 1]

IsNull(x) == x.k = "nan"
IsZero(x) == x.k = "num" /\ x.n = 0

\* a * b on float64 columns (values are non-negative)
FMul(a, b) ==
    IF a.k = "nan" \/ b.k = "nan" THEN NaN
    ELSE IF a.k = "inf" \/ b.k = "inf"
         THEN (IF IsZero(a) \/ IsZero(b) THEN NaN ELSE Inf)
         ELSE Rat(a.n * b.n, a.d * b.d)

\* a / b on numeric columns: no exception on a zero divisor, x/0 = inf, 0/0 = NaN
FDiv(a, b) ==
    IF a.k = "nan" \/ b.k = "nan" THEN NaN
    ELSE IF b.k = "inf" THEN (IF a.k = "inf" THEN NaN ELSE Num(0))
    ELSE IF a.k = "inf" THEN Inf
    ELSE IF b.n = 0 THEN (IF a.n = 0 THEN NaN ELSE Inf)
    ELSE Rat(a.n * b.d, a.d * b.n)

(***************************************************************************)
(* Tables                                                                  *)
(***************************************************************************)
NoTable == [exists |-> FALSE, cols |-> {}, rows |-> <<>>]
Table(cols, rows) == [exists |-> TRUE, cols |-> cols, rows |-> rows]

RECURSIVE SeqsUpTo(_, _)
\* the sequences over S of length at most n
SeqsUpTo(S, n) ==
    IF n = 0 THEN {<<>>}
    ELSE LET shorter == SeqsUpTo(S, n - 1)
         IN  shorter \cup {Append(s, x) : s \in {t \in shorter : Len(t) = n - 1}, x \in S}

Range(s) == {s[i] : i \in 1..Len(s)}

(***************************************************************************)
(* Country Name Normalizer                                                 *)
(***************************************************************************)
\* the reference registry behind pycountry.countries (two of its records)
Registry ==
    { [name |-> "Brazil",   alpha_2 |-> "BR", alpha_3 |-> "BRA"],
      [name |-> "Colombia", alpha_2 |-> "CO", alpha_3 |-> "COL"] }

\* str.lower() on the strings of the model
Lower(s) ==
    CASE s = "Brazil"   -> "brazil"
      [] s = "BRA"      -> "bra"
      [] s = "BR"       -> "br"
      [] s = "Colombia" -> "colombia"
      [] s = "COL"      -> "col"
      [] s = "CO"       -> "co"
      [] s = "Atlantis" -> "atlantis"
      [] OTHER          -> s

\* pycountry.countries.lookup(name): case-insensitive match on any field of a record
LookupMatches(name) ==
    {c \in Registry : Lower(name) \in {Lower(c.alpha_2), Lower(c.alpha_3), Lower(c.name)}}

\* a faulty variant: the cache entry is written with key and value swapped
normalize_country_SwappedCache(cache, name) ==
    IF name \in DOMAIN cache
    THEN [ret |-> cache[name], cache |-> cache]
    ELSE IF LookupMatches(name) # {}
         THEN LET normalized == (CHOOSE c \in LookupMatches(name) : TRUE).name
              IN  [ret |-> normalized,
                   cache |-> [k \in DOMAIN cache \cup {normalized} |->
                                 IF k = normalized THEN name ELSE cache[k]]]
         ELSE [ret |-> name,
               cache |-> [k \in DOMAIN cache \cup {name} |->
                             IF k = name THEN name ELSE cache[k]]]

\* normalize_country(name) run with COUNTRY_CACHE = cache: the value returned
\* and the cache afterwards
normalize_country(cache, name) ==
    IF name \in DOMAIN cache
    THEN [ret |-> cache[name], cache |-> cache]
    ELSE IF LookupMatches(name) # {}
         THEN LET normalized == (CHOOSE c \in LookupMatches(name) : TRUE).name
              IN  [ret |-> normalized,
                   cache |-> [k \in DOMAIN cache \cup {name} |->
                                 IF k = name THEN normalized ELSE cache[k]]]
         ELSE [ret |-> name,
               cache |-> [k \in DOMAIN cache \cup {name} |->
                             IF k = name THEN name ELSE cache[k]]]

RECURSIVE NormalizeColumn(_, _, _)
\* Series.apply(normalize_country) over the values names[i..], in row order
NormalizeColumn(cache, names, i) ==
    IF i > Len(names) THEN [vals |-> <<>>, cache |-> cache]
    ELSE LET r    == normalize_country(cache, names[i])
             rest == NormalizeColumn(r.cache, names, i + 1)
         IN  [vals |-> <<r.ret>> \o rest.vals, cache |-> rest.cache]

(***************************************************************************)
(* Join Engine / Metric Calculator                                         *)
(*                                                                         *)
(* Rows.  consumption: [name, val]   (the country column and the quantity  *)
(* column, whatever their headers are); population: [country,              *)
(* country_code, year, population]; emission/water: [product, emission,    *)
(* water].  A column is readable only if its header is in cols.            *)
(***************************************************************************)
ConsRequired == {"Area", "consumption_t"}
EmisRequired == {"product", "emission_kgCO2e_per_kg", "water_l_per_kg"}
PopRequired  == {"country", "country_code", "population"}

OutCols ==
    {"country_norm", "consumption_kg", "country_code", "population",
     "emission_kgCO2e_per_kg", "water_l_per_kg", "consumption_kg_per_capita",
     "total_emission_kgCO2e", "emission_kgCO2e_per_capita", "total_water_l",
     "water_per_capita", "original_country"}

\* the factor of cons["consumption_t"] * 1000
TonneToKg == 1000

\* a null cell of a string column
NullStr == "nan"

\* a faulty variant: the population table is left out of required_columns
SchemaMissing_SkipsPopulation(cons, emis, pop) ==
    \/ \E c \in ConsRequired : c \notin cons.cols
    \/ \E c \in EmisRequired : c \notin emis.cols

\* the validation loop over required_columns: some table misses a column
SchemaMissing(cons, emis, pop) ==
    \/ \E c \in ConsRequired : c \notin cons.cols
    \/ \E c \in EmisRequired : c \notin emis.cols
    \/ \E c \in PopRequired  : c \notin pop.cols

RECURSIVE LeftMerge(_, _, _)
\* left.merge(right, on="country_norm", how="left") from left row i on: every
\* left row once per matching right row, in right order, and once with nulls
\* when nothing matches
LeftMerge(left, right, i) ==
    IF i > Len(left) THEN <<>>
    ELSE LET l == left[i]
             m == SelectSeq(right, LAMBDA r : r.country_norm = l.country_norm)
             joined ==
                 IF Len(m) = 0
                 THEN << [country_norm |-> l.country_norm, consumption_kg |-> l.consumption_kg,
                          country_code |-> NullStr, population |-> NaN] >>
                 ELSE [j \in 1..Len(m) |->
                          [country_norm |-> l.country_norm, consumption_kg |-> l.consumption_kg,
                           country_code |-> m[j].country_code, population |-> m[j].population]]
         IN  joined \o LeftMerge(left, right, i + 1)

RECURSIVE CrossMerge(_, _, _)
\* left.merge(right, how="cross") from left row i on
CrossMerge(left, right, i) ==
    IF i > Len(left) THEN <<>>
    ELSE [j \in 1..Len(right) |->
             [country_norm |-> left[i].country_norm,
              consumption_kg |-> left[i].consumption_kg,
              country_code |-> left[i].country_code,
              population |-> left[i].population,
              emission_kgCO2e_per_kg |-> right[j].emission,
              water_l_per_kg |-> right[j].water]]
         \o CrossMerge(left, right, i + 1)

\* a faulty variant: the first row of a canonical name wins
country_map_FirstSeen(areas, norms) ==
    [k \in Range(norms) |->
        areas[CHOOSE i \in 1..Len(norms) :
                 norms[i] = k /\ \A j \in 1..(i - 1) : norms[j] # k]]

\* cons.set_index("country_norm")["Area"].to_dict(): a later row of the same key
\* overwrites an earlier one
country_map(areas, norms) ==
    [k \in Range(norms) |->
        areas[CHOOSE i \in 1..Len(norms) :
                 norms[i] = k /\ \A j \in (i + 1)..Len(norms) : norms[j] # k]]

\* the five derived columns and original_country of one joined row
Metrics(r, cmap) ==
    LET percap == FDiv(r.consumption_kg, r.population)
    IN  [country_norm |-> r.country_norm,
         consumption_kg |-> r.consumption_kg,
         country_code |-> r.country_code,
         population |-> r.population,
         emission_kgCO2e_per_kg |-> r.emission_kgCO2e_per_kg,
         water_l_per_kg |-> r.water_l_per_kg,
         consumption_kg_per_capita |-> percap,
         total_emission_kgCO2e |-> FMul(r.consumption_kg, r.emission_kgCO2e_per_kg),
         emission_kgCO2e_per_capita |-> FMul(percap, r.emission_kgCO2e_per_kg),
         total_water_l |-> FMul(r.consumption_kg, r.water_l_per_kg),
         water_per_capita |-> FMul(percap, r.water_l_per_kg),
         original_country |-> cmap[r.country_norm]]

\* transform_all() run on the three input files, the output file out and
\* COUNTRY_CACHE = cache: the exception raised ("none" when it returns), the
\* table returned, the output file and the cache afterwards
transform_all(cons, emis, pop, out, cache) ==
    IF ~cons.exists \/ ~emis.exists \/ ~pop.exists
    THEN [raised |-> "FileNotFoundError", ret |-> NoTable, out |-> out, cache |-> cache]
    ELSE IF SchemaMissing(cons, emis, pop)
    THEN [raised |-> "ValueError", ret |-> NoTable, out |-> out, cache |-> cache]
    ELSE
        LET areas  == [i \in 1..Len(cons.rows) |-> cons.rows[i].name]
            nc     == NormalizeColumn(cache, areas, 1)
            np     == NormalizeColumn(nc.cache,
                                      [i \in 1..Len(pop.rows) |-> pop.rows[i].country], 1)
            consK  == [i \in 1..Len(cons.rows) |->
                          [country_norm |-> nc.vals[i],
                           consumption_kg |-> FMul(cons.rows[i].val, Num(TonneToKg))]]
            popK   == [i \in 1..Len(pop.rows) |->
                          [country_norm |-> np.vals[i],
                           country_code |-> pop.rows[i].country_code,
                           population |-> pop.rows[i].population]]
            joined == CrossMerge(LeftMerge(consK, popK, 1), emis.rows, 1)
            cmap   == country_map(areas, nc.vals)
            df     == Table(OutCols, [i \in 1..Len(joined) |-> Metrics(joined[i], cmap)])
        IN  [raised |-> "none", ret |-> df, out |-> df, cache |-> np.cache]

(***************************************************************************)
(* Source Fetchers                                                         *)
(*                                                                         *)
(* A fetcher returns [ret, file, requests]: the value returned (NoTable    *)
(* for None), its cache file afterwards, and the number of network         *)
(* requests (session.get / pd.read_csv(url) calls) it issued.  No fetcher  *)
(* raises: each body is wrapped in try / except Exception.                 *)
(***************************************************************************)
\* a faulty variant: the cache file is not consulted
fetch_coffee_consumption_NoCacheCheck(file, api) ==
    IF api.kind = "error" \/ ~api.hasData \/ ~api.hasKeys \/ api.rows = <<>>
    THEN [ret |-> NoTable, file |-> file, requests |-> 1]
    ELSE LET df == Table({"country", "consumption_1000t"}, api.rows)
         IN  [ret |-> df, file |-> df, requests |-> 1]

\* fetch_coffee_consumption().  api = [kind, hasData, hasKeys, rows]: kind
\* "error" is a failed request or raise_for_status(); hasData says the JSON
\* has the key 'data', hasKeys that its rows have 'area' and 'value'
fetch_coffee_consumption(file, api) ==
    IF file.exists
    THEN [ret |-> file, file |-> file, requests |-> 0]
    ELSE IF api.kind = "error" \/ ~api.hasData \/ ~api.hasKeys \/ api.rows = <<>>
    THEN [ret |-> NoTable, file |-> file, requests |-> 1]
    ELSE LET df == Table({"country", "consumption_1000t"}, api.rows)
         IN  [ret |-> df, file |-> df, requests |-> 1]

RECURSIVE MergeOnProduct(_, _, _)
\* pd.merge(coffee_ghg, coffee_water, on='product'): every row of either side
\* has product 'Coffee', so each left row pairs with each right row
MergeOnProduct(g, w, i) ==
    IF i > Len(g) THEN <<>>
    ELSE [j \in 1..Len(w) |-> [product |-> "Coffee", emission |-> g[i], water |-> w[j]]]
         \o MergeOnProduct(g, w, i + 1)

\* fetch_emission_water().  ghg, water = [kind, hasCols, coffee]: hasCols says
\* the CSV has Entity and the value column, coffee lists the values of its
\* rows with Entity == 'Coffee'
fetch_emission_water(file, ghg, water) ==
    IF file.exists
    THEN [ret |-> file, file |-> file, requests |-> 0]
    ELSE IF ghg.kind = "error" \/ ~ghg.hasCols
    THEN [ret |-> NoTable, file |-> file, requests |-> 1]
    ELSE IF water.kind = "error" \/ ~water.hasCols
    THEN [ret |-> NoTable, file |-> file, requests |-> 2]
    ELSE LET df == Table(EmisRequired, MergeOnProduct(ghg.coffee, water.coffee, 1))
         IN  [ret |-> df, file |-> df, requests |-> 2]

\* a page of the population API.  kind "error": the request fails or
\* raise_for_status() raises; "short": a JSON value of fewer than two
\* elements (the API's error-message answer); "rows": [meta, items];
\* "garbled": [meta, items] whose items have a value but lack the other keys
EmptyPage == [kind |-> "rows", items |-> <<>>]

\* the answer to the request for page i: past the last page the API serves
\* pages without rows
PageAt(pages, i) == IF i <= Len(pages) THEN pages[i] ELSE EmptyPage

RECURSIVE FetchPages(_, _, _, _)
\* the while True loop from params["page"] = page on
FetchPages(pages, page, all_data, garbled) ==
    LET resp == PageAt(pages, page)
    IN  IF resp.kind = "error"
        THEN [failed |-> TRUE, all_data |-> all_data, garbled |-> garbled, requests |-> page]
        ELSE IF resp.kind = "short" \/ (resp.kind = "rows" /\ resp.items = <<>>)
        THEN [failed |-> FALSE, all_data |-> all_data, garbled |-> garbled, requests |-> page]
        ELSE FetchPages(pages, page + 1, all_data \o resp.items,
                        garbled \/ resp.kind = "garbled")

RECURSIVE drop_duplicates(_)
\* df.drop_duplicates(subset=["country_code", "year"]): the first row of each key stays
drop_duplicates(rows) ==
    IF rows = <<>> THEN <<>>
    ELSE LET n     == Len(rows)
             front == drop_duplicates(SubSeq(rows, 1, n - 1))
         IN  IF \E i \in 1..(n - 1) : /\ rows[i].country_code = rows[n].country_code
                                      /\ rows[i].year = rows[n].year
             THEN front
             ELSE Append(front, rows[n])

\* the order of Python strings on the strings of the model
StrRank(s) ==
    CASE s = "Atlantis" -> 1
      [] s = "BR"       -> 2
      [] s = "BRA"      -> 3
      [] s = "Brazil"   -> 4
      [] s = "CO"       -> 5
      [] s = "COL"      -> 6
      [] s = "Colombia" -> 7
      [] s = "atlantis" -> 8
      [] s = "brazil"   -> 9
      [] OTHER          -> 10

RowLess(a, b) ==
    \/ StrRank(a.country) < StrRank(b.country)
    \/ StrRank(a.country) = StrRank(b.country) /\ a.year < b.year

RECURSIVE sort_values(_)
\* df.sort_values(["country", "year"]); rows with equal keys keep their order
sort_values(rows) ==
    IF rows = <<>> THEN <<>>
    ELSE LET n     == Len(rows)
             front == sort_values(SubSeq(rows, 1, n - 1))
             k     == Cardinality({i \in 1..Len(front) : ~RowLess(rows[n], front[i])})
         IN  SubSeq(front, 1, k) \o <<rows[n]>> \o SubSeq(front, k + 1, Len(front))

\* the list comprehension of pd.DataFrame([...]): one row per item whose value
\* is not None
PopulationFrame(all_data) ==
    LET kept == SelectSeq(all_data, LAMBDA item : ~IsNull(item.value))
    IN  [i \in 1..Len(kept) |->
            [country |-> kept[i].country, country_code |-> kept[i].country_code,
             year |-> kept[i].year, population |-> kept[i].value]]

\* fetch_population().  An item that lacks a key raises KeyError in the
\* comprehension; a frame without rows has no columns, so sort_values raises
\* KeyError; both end in the except branch
fetch_population(file, pages) ==
    IF file.exists
    THEN [ret |-> file, file |-> file, requests |-> 0]
    ELSE LET loop  == FetchPages(pages, 1, <<>>, FALSE)
             frame == PopulationFrame(loop.all_data)
         IN  IF loop.failed \/ loop.garbled \/ Len(frame) = 0
             THEN [ret |-> NoTable, file |-> file, requests |-> loop.requests]
             ELSE LET df == Table({"country", "country_code", "year", "population"},
                                  sort_values(drop_duplicates(frame)))
                  IN  [ret |-> df, file |-> df, requests |-> loop.requests]

(***************************************************************************)
(* Bounds and input universes                                              *)
(***************************************************************************)
MaxConsRows == 2
MaxPopRows  == 2
MaxEmisRows == 1
MaxPages    == 2
MaxPageRows == 2

\* the names normalize_country is called with directly
NormNames == {"Brazil", "brazil", "BRA", "BR", "Colombia", "COL", "Atlantis"}

ConsRowU == [name : {"Brazil", "BRA", "Atlantis"}, val : {Num(2), Num(2000)}]
PopRowU  == [country : {"Brazil", "brazil"}, country_code : {"BRA"}, year : {2023},
             population : {Num(0), Num(4)}]
EmisRowU == {[product |-> "Coffee", emission |-> Num(5), water |-> Num(3)]}

PopCols == {"country", "country_code", "year", "population"}

\* headers of a consumption file: what transform_all requires, what
\* fetch_coffee_consumption writes, and files that lack a column
ConsColVariants ==
    {ConsRequired, {"country", "consumption_1000t"}, {"Area", "consumption_1000t"},
     {"Area"}, {"consumption_t"}}
EmisColVariants == {EmisRequired} \cup {EmisRequired \ {c} : c \in EmisRequired}
PopColVariants  == {PopCols} \cup {PopCols \ {c} : c \in PopRequired}

\* an artifact left by an earlier successful run
StaleOutput ==
    transform_all(Table(ConsRequired, <<[name |-> "Colombia", val |-> Num(1)]>>),
                  Table(EmisRequired, <<[product |-> "Coffee", emission |-> Num(5),
                                         water |-> Num(3)]>>),
                  Table(PopCols, <<>>), NoTable, <<>>).out

\* answers of the consumption API
ConsResponses ==
    { [kind |-> "error", hasData |-> FALSE, hasKeys |-> FALSE, rows |-> <<>>],
      [kind |-> "json",  hasData |-> FALSE, hasKeys |-> FALSE, rows |-> <<>>],
      [kind |-> "json",  hasData |-> TRUE,  hasKeys |-> TRUE,  rows |-> <<>>],
      [kind |-> "json",  hasData |-> TRUE,  hasKeys |-> FALSE,
       rows |-> <<[name |-> "Brazil", val |-> Num(2)]>>],
      [kind |-> "json",  hasData |-> TRUE,  hasKeys |-> TRUE,
       rows |-> <<[name |-> "Brazil", val |-> Num(2)]>>],
      [kind |-> "json",  hasData |-> TRUE,  hasKeys |-> TRUE,
       rows |-> <<[name |-> "Brazil", val |-> Num(2)],
                  [name |-> "Colombia", val |-> Num(2000)]>>] }

\* answers of the two bulk CSV downloads
GhgResponses ==
    { [kind |-> "error", hasCols |-> FALSE, coffee |-> <<>>],
      [kind |-> "csv",   hasCols |-> FALSE, coffee |-> <<>>],
      [kind |-> "csv",   hasCols |-> TRUE,  coffee |-> <<>>],
      [kind |-> "csv",   hasCols |-> TRUE,  coffee |-> <<Num(5)>>] }
WaterResponses ==
    { [kind |-> "error", hasCols |-> FALSE, coffee |-> <<>>],
      [kind |-> "csv",   hasCols |-> FALSE, coffee |-> <<>>],
      [kind |-> "csv",   hasCols |-> TRUE,  coffee |-> <<Num(3)>>] }

Item(code, year, value) ==
    [country |-> IF code = "BRA" THEN "Brazil" ELSE "Colombia",
     country_code |-> code, year |-> year, value |-> value]
RowsPage(items) == [kind |-> "rows", items |-> items]
ErrorPage   == [kind |-> "error", items |-> <<>>]
ShortPage   == [kind |-> "short", items |-> <<>>]
GarbledPage == [kind |-> "garbled", items |-> <<Item("BRA", 2023, Num(4))>>]

\* population servers of the pipeline specification
PipePopServers ==
    { <<RowsPage(<<Item("BRA", 2023, Num(4))>>)>>,
      <<RowsPage(<<Item("COL", 2023, Num(0)), Item("BRA", 2023, Num(4))>>),
        RowsPage(<<Item("BRA", 2023, Num(4))>>)>>,
      <<RowsPage(<<Item("BRA", 2023, NaN)>>)>>,
      <<ErrorPage>>,
      <<RowsPage(<<Item("BRA", 2023, Num(4))>>), ErrorPage>>,
      <<ShortPage>>,
      <<RowsPage(<<Item("BRA", 2023, Num(4))>>), ShortPage>>,
      <<GarbledPage>> }

\* population servers of the pagination specification: at most pages pages of
\* at most rows items each
ItemU == {Item(c, y, v) : c \in {"BRA", "COL"}, y \in {2022, 2023}, v \in {NaN, Num(4)}}
PageU(rows) ==
    {ErrorPage, ShortPage, GarbledPage}
        \cup {RowsPage(items) : items \in SeqsUpTo(ItemU, rows)}
PopServers(pages, rows) == SeqsUpTo(PageU(rows), pages)

(***************************************************************************)
(* State machine                                                           *)
(***************************************************************************)
NoCall == [op |-> "init", cacheExisted |-> FALSE, requests |-> 0,
           raised |-> "none", ret |-> NoTable]

FetchCall(op, file, r) ==
    [op |-> op, cacheExisted |-> file.exists, requests |-> r.requests,
     raised |-> "none", ret |-> r.ret]

FetchCoffeeConsumption ==
    LET r == fetch_coffee_consumption(consFile, consApi)
    IN  /\ consFile' = r.file
        /\ last' = FetchCall("fetch_coffee_consumption", consFile, r)
        /\ UNCHANGED <<emisFile, popFile, outFile, COUNTRY_CACHE,
                       consApi, ghgApi, waterApi, popApi, normArg, normRet>>

FetchEmissionWater ==
    LET r == fetch_emission_water(emisFile, ghgApi, waterApi)
    IN  /\ emisFile' = r.file
        /\ last' = FetchCall("fetch_emission_water", emisFile, r)
        /\ UNCHANGED <<consFile, popFile, outFile, COUNTRY_CACHE,
                       consApi, ghgApi, waterApi, popApi, normArg, normRet>>

FetchPopulation ==
    LET r == fetch_population(popFile, popApi)
    IN  /\ popFile' = r.file
        /\ last' = FetchCall("fetch_population", popFile, r)
        /\ UNCHANGED <<consFile, emisFile, outFile, COUNTRY_CACHE,
                       consApi, ghgApi, waterApi, popApi, normArg, normRet>>

TransformAll ==
    LET r == transform_all(consFile, emisFile, popFile, outFile, COUNTRY_CACHE)
    IN  /\ outFile' = r.out
        /\ COUNTRY_CACHE' = r.cache
        /\ last' = [op |-> "transform_all", cacheExisted |-> FALSE, requests |-> 0,
                    raised |-> r.raised, ret |-> r.ret]
        /\ UNCHANGED <<consFile, emisFile, popFile,
                       consApi, ghgApi, waterApi, popApi, normArg, normRet>>

NormalizeCall ==
    \E name \in NormNames :
        LET r == normalize_country(COUNTRY_CACHE, name)
        IN  /\ COUNTRY_CACHE' = r.cache
            /\ normArg' = name
            /\ normRet' = r.ret
            /\ UNCHANGED <<consFile, emisFile, popFile, outFile,
                           consApi, ghgApi, waterApi, popApi, last>>

\* the environment: a remote source starts answering differently
ConsApiChange ==
    /\ consApi' \in ConsResponses \ {consApi}
    /\ UNCHANGED <<consFile, emisFile, popFile, outFile, COUNTRY_CACHE,
                   ghgApi, waterApi, popApi, last, normArg, normRet>>

EmisApiChange ==
    /\ ghgApi' \in GhgResponses
    /\ waterApi' \in WaterResponses
    /\ <<ghgApi', waterApi'>> # <<ghgApi, waterApi>>
    /\ UNCHANGED <<consFile, emisFile, popFile, outFile, COUNTRY_CACHE,
                   consApi, popApi, last, normArg, normRet>>

PopApiChange ==
    /\ popApi' \in PipePopServers \ {popApi}
    /\ UNCHANGED <<consFile, emisFile, popFile, outFile, COUNTRY_CACHE,
                   consApi, ghgApi, waterApi, last, normArg, normRet>>

\* the pipeline from an empty data directory
Init ==
    /\ consFile = NoTable /\ emisFile = NoTable /\ popFile = NoTable /\ outFile = NoTable
    /\ COUNTRY_CACHE = <<>>
    /\ consApi \in ConsResponses
    /\ ghgApi \in GhgResponses
    /\ waterApi \in WaterResponses
    /\ popApi \in PipePopServers
    /\ last = NoCall
    /\ normArg = "" /\ normRet = ""

Next ==
    \/ FetchCoffeeConsumption
    \/ FetchEmissionWater
    \/ FetchPopulation
    \/ TransformAll
    \/ ConsApiChange
    \/ EmisApiChange
    \/ PopApiChange

Spec == Init /\ [][Next]_vars

IdleApis ==
    /\ consApi = [kind |-> "error", hasData |-> FALSE, hasKeys |-> FALSE, rows |-> <<>>]
    /\ ghgApi = [kind |-> "error", hasCols |-> FALSE, coffee |-> <<>>]
    /\ waterApi = [kind |-> "error", hasCols |-> FALSE, coffee |-> <<>>]
    /\ popApi = <<ErrorPage>>

\* transform_all on input files already in the data directory
InitTransform ==
    /\ \/ /\ consFile \in {Table(ConsRequired, rows) : rows \in SeqsUpTo(ConsRowU, MaxConsRows)}
          /\ emisFile \in {Table(EmisRequired, rows) : rows \in SeqsUpTo(EmisRowU, MaxEmisRows)}
          /\ popFile \in {Table(PopCols, rows) : rows \in SeqsUpTo(PopRowU, MaxPopRows)}
          /\ outFile = NoTable
       \/ /\ consFile \in {Table(cols, <<[name |-> "Brazil", val |-> Num(2)]>>) :
                              cols \in ConsColVariants}
          /\ emisFile \in {Table(cols, <<[product |-> "Coffee", emission |-> Num(5),
                                          water |-> Num(3)]>>) : cols \in EmisColVariants}
          /\ popFile \in {Table(cols, <<[country |-> "Brazil", country_code |-> "BRA",
                                         year |-> 2023, population |-> Num(4)]>>) :
                             cols \in PopColVariants}
          /\ outFile \in {NoTable, StaleOutput}
    /\ COUNTRY_CACHE = <<>>
    /\ IdleApis
    /\ last = NoCall
    /\ normArg = "" /\ normRet = ""

NextTransform == TransformAll

SpecTransform == InitTransform /\ [][NextTransform]_vars

\* direct calls of the normalizer
InitNorm ==
    /\ consFile = NoTable /\ emisFile = NoTable /\ popFile = NoTable /\ outFile = NoTable
    /\ COUNTRY_CACHE = <<>>
    /\ IdleApis
    /\ last = NoCall
    /\ normArg = "" /\ normRet = ""

NextNorm == NormalizeCall

SpecNorm == InitNorm /\ [][NextNorm]_vars

\* fetch_population against every population server within the bounds
InitPop ==
    /\ consFile = NoTable /\ emisFile = NoTable /\ popFile = NoTable /\ outFile = NoTable
    /\ COUNTRY_CACHE = <<>>
    /\ consApi = [kind |-> "error", hasData |-> FALSE, hasKeys |-> FALSE, rows |-> <<>>]
    /\ ghgApi = [kind |-> "error", hasCols |-> FALSE, coffee |-> <<>>]
    /\ waterApi = [kind |-> "error", hasCols |-> FALSE, coffee |-> <<>>]
    /\ popApi \in PopServers(MaxPages, MaxPageRows)
    /\ last = NoCall
    /\ normArg = "" /\ normRet = ""

NextPop == FetchPopulation

SpecPop == InitPop /\ [][NextPop]_vars

(***************************************************************************)
(* Properties                                                              *)
(***************************************************************************)
\* the step is a call of op: it records op and no remote source changes in it
CallStep(op) ==
    /\ last'.op = op
    /\ UNCHANGED <<consApi, ghgApi, waterApi, popApi>>

InputsExist == consFile.exists /\ emisFile.exists /\ popFile.exists

LacksRequiredColumn ==
    \/ \E c \in {"Area", "consumption_t"} : c \notin consFile.cols
    \/ \E c \in {"product", "emission_kgCO2e_per_kg", "water_l_per_kg"} : c \notin emisFile.cols
    \/ \E c \in {"country", "country_code", "population"} : c \notin popFile.cols

Transformed == last.op = "transform_all" /\ last.raised = "none"

\* C1: when the three input files exist and one of them lacks a required
\* column, transform_all raises the schema error (ValueError) and leaves the
\* output artifact as it was: not created, and a prior artifact unmodified.
C1_SchemaErrorNoOutput ==
    [][ (CallStep("transform_all") /\ InputsExist /\ LacksRequiredColumn)
            => (last'.raised = "ValueError" /\ outFile' = outFile) ]_vars

\* a run aborted on a population file without the population column, with the
\* artifact of an earlier run still in place
C1_Witness ==
    /\ last.op = "transform_all"
    /\ last.raised = "ValueError"
    /\ "population" \notin popFile.cols
    /\ consFile.cols = ConsRequired /\ emisFile.cols = EmisRequired
    /\ outFile = StaleOutput

\* C2: in the table transform_all returns, every row whose population is null
\* or zero has null consumption_kg_per_capita, emission_kgCO2e_per_capita and
\* water_per_capita.
C2_NullPerCapita ==
    Transformed =>
        \A i \in 1..Len(last.ret.rows) :
            LET r == last.ret.rows[i]
            IN  (IsNull(r.population) \/ IsZero(r.population)) =>
                    /\ IsNull(r.consumption_kg_per_capita)
                    /\ IsNull(r.emission_kgCO2e_per_capita)
                    /\ IsNull(r.water_per_capita)

\* C3: a fetcher whose cache file exists returns the file's data and issues no
\* network request; a cache file, once there, stays, so no later call of that
\* fetcher issues one.
C3_CacheHitNoNetwork ==
    [][ /\ consFile.exists =>
              ( /\ consFile' = consFile
                /\ CallStep("fetch_coffee_consumption") =>
                       (last'.requests = 0 /\ last'.ret = consFile) )
        /\ emisFile.exists =>
              ( /\ emisFile' = emisFile
                /\ CallStep("fetch_emission_water") =>
                       (last'.requests = 0 /\ last'.ret = emisFile) )
        /\ popFile.exists =>
              ( /\ popFile' = popFile
                /\ CallStep("fetch_population") =>
                       (last'.requests = 0 /\ last'.ret = popFile) ) ]_vars

\* a population fetch answered from the cache while the API is failing
C3_Witness ==
    /\ last.op = "fetch_population"
    /\ last.cacheExisted
    /\ last.requests = 0
    /\ popFile.exists /\ last.ret = popFile
    /\ popApi = <<ErrorPage>>

\* the call of fetch_population of this step got a failed request or a
\* malformed payload among its answers
PopulationFailureHit ==
    \E i \in 1..last'.requests : PageAt(popApi, i).kind # "rows"

\* C4: a fetcher called without a cache file that hits a network failure or a
\* malformed payload returns None and leaves no cache file, and transform_all
\* run with an input file missing raises the missing-input error
\* (FileNotFoundError) and does not write the output artifact.
C4_FailedFetchLeavesNoCache ==
    [][ /\ ( /\ CallStep("fetch_coffee_consumption") /\ ~consFile.exists
             /\ (consApi.kind = "error" \/ ~consApi.hasData \/ ~consApi.hasKeys) )
              => (last'.ret = NoTable /\ ~consFile'.exists)
        /\ ( /\ CallStep("fetch_emission_water") /\ ~emisFile.exists
             /\ \/ ghgApi.kind = "error" \/ ~ghgApi.hasCols
                \/ (last'.requests = 2 /\ (waterApi.kind = "error" \/ ~waterApi.hasCols)) )
              => (last'.ret = NoTable /\ ~emisFile'.exists)
        /\ ( CallStep("fetch_population") /\ ~popFile.exists /\ PopulationFailureHit )
              => (last'.ret = NoTable /\ ~popFile'.exists)
        /\ ( CallStep("transform_all") /\ ~InputsExist )
              => (last'.raised = "FileNotFoundError" /\ outFile' = outFile) ]_vars

\* C5: with an emission/water table of exactly one row, the table
\* transform_all returns has one row per country: as many rows as the
\* consumption table has distinct country_norm values, and no country_norm
\* twice.
C5_OneRowPerCountry ==
    (Transformed /\ Len(emisFile.rows) = 1) =>
        LET rows == last.ret.rows
        IN  /\ Len(rows) = Cardinality({COUNTRY_CACHE[consFile.rows[i].name] :
                                           i \in 1..Len(consFile.rows)})
            /\ \A i, j \in 1..Len(rows) :
                   rows[i].country_norm = rows[j].country_norm => i = j

\* kilograms per unit of the quantity column of a consumption file
KgPerUnit(cols) ==
    IF "consumption_1000t" \in cols THEN 1000 * 1000 ELSE 1000

\* C6: transform_all's consumption_kg is the physical quantity in kilograms
\* for the unit of the consumption file: 2 in a file in 1000 tonnes (the
\* fetcher's file, columns country and consumption_1000t) gives 2_000_000, and
\* 2000 in a file in tonnes (columns Area and consumption_t) gives 2_000_000.
C6_UnitScaling ==
    ( /\ last.op = "transform_all" /\ InputsExist
      /\ consFile.cols \in {{"Area", "consumption_t"}, {"country", "consumption_1000t"}}
      /\ emisFile.cols = EmisRequired /\ PopRequired \subseteq popFile.cols
      /\ Len(emisFile.rows) >= 1 )
        => /\ last.raised = "none"
           /\ {last.ret.rows[i].consumption_kg : i \in 1..Len(last.ret.rows)}
                  = {FMul(consFile.rows[i].val, Num(KgPerUnit(consFile.cols))) :
                        i \in 1..Len(consFile.rows)}

\* the names the registry resolves
RegistryNames == {n \in NormNames \cup {c.name : c \in Registry} : LookupMatches(n) # {}}

\* C7: on every registry name, and whatever earlier calls have put into
\* COUNTRY_CACHE, normalize_country(normalize_country(name)) equals
\* normalize_country(name).
C7_NormalizeIdempotent ==
    \A name \in RegistryNames :
        LET inner == normalize_country(COUNTRY_CACHE, name)
            outer == normalize_country(inner.cache, inner.ret)
            again == normalize_country(outer.cache, name)
        IN  outer.ret = again.ret

\* the canonical name is normalized after one of its aliases was cached
C7_Witness ==
    /\ "BRA" \in DOMAIN COUNTRY_CACHE
    /\ "Atlantis" \in DOMAIN COUNTRY_CACHE
    /\ normArg = "Brazil"
    /\ normRet = "Brazil"

\* the index of the first / last consumption row whose canonical name is k
FirstSeen(k) ==
    CHOOSE i \in 1..Len(consFile.rows) :
        /\ COUNTRY_CACHE[consFile.rows[i].name] = k
        /\ \A j \in 1..(i - 1) : COUNTRY_CACHE[consFile.rows[j].name] # k
LastSeen(k) ==
    CHOOSE i \in 1..Len(consFile.rows) :
        /\ COUNTRY_CACHE[consFile.rows[i].name] = k
        /\ \A j \in (i + 1)..Len(consFile.rows) : COUNTRY_CACHE[consFile.rows[j].name] # k

\* C8 as stated: original_country of a row is the Area value of the earliest
\* consumption row whose normalized name is the row's country_norm.
C8_OriginalIsFirstSeen ==
    Transformed =>
        \A i \in 1..Len(last.ret.rows) :
            last.ret.rows[i].original_country
                = consFile.rows[FirstSeen(last.ret.rows[i].country_norm)].name

\* C8 as amended: original_country of a row is the Area value of the latest
\* consumption row whose normalized name is the row's country_norm.
C8_OriginalIsLastSeen ==
    Transformed =>
        \A i \in 1..Len(last.ret.rows) :
            last.ret.rows[i].original_country
                = consFile.rows[LastSeen(last.ret.rows[i].country_norm)].name

\* two spellings of one country in the consumption table, the later one reported
C8_Witness ==
    /\ Transformed
    /\ Len(consFile.rows) = 2
    /\ consFile.rows[1].name = "Brazil" /\ consFile.rows[2].name = "BRA"
    /\ Len(last.ret.rows) >= 1
    /\ \A i \in 1..Len(last.ret.rows) : last.ret.rows[i].original_country = "BRA"

\* the (country_code, year) pairs of the items with a value on the pages served
ValuedKeys ==
    UNION { LET items == popApi[p].items
            IN  {<<items[i].country_code, items[i].year>> :
                    i \in {x \in 1..Len(items) : ~IsNull(items[x].value)}} :
            p \in 1..Len(popApi) }

\* the API serves non-empty pages 1..k and then pages without rows
ServesNonEmptyPages ==
    /\ Len(popApi) >= 1
    /\ \A p \in 1..Len(popApi) : popApi[p].kind = "rows" /\ popApi[p].items # <<>>

PaginationResult ==
    /\ last.requests = Len(popApi) + 1
    /\ last.ret.exists
    /\ {<<last.ret.rows[i].country_code, last.ret.rows[i].year>> :
            i \in 1..Len(last.ret.rows)} = ValuedKeys
    /\ \A i, j \in 1..Len(last.ret.rows) :
           ( /\ last.ret.rows[i].country_code = last.ret.rows[j].country_code
             /\ last.ret.rows[i].year = last.ret.rows[j].year ) => i = j
    /\ \A i \in 1..Len(last.ret.rows) : ~IsNull(last.ret.rows[i].population)

\* C9: fetch_population without a cache file, against an API that serves
\* non-empty pages 1..k and then a page without rows, stops after requesting
\* page k+1 and returns a table with exactly one row per (country_code, year)
\* pair of the items that have a value, and no row with a null population.
C9_PaginationDedup ==
    (last.op = "fetch_population" /\ ~last.cacheExisted /\ ServesNonEmptyPages)
        => PaginationResult

\* the same, for the servers that deliver at least one item with a value
PaginationDedupWhenValued ==
    ( /\ last.op = "fetch_population" /\ ~last.cacheExisted /\ ServesNonEmptyPages
      /\ ValuedKeys # {} )
        => PaginationResult

\* C10: from an empty data directory, once the three fetchers have persisted
\* their cache files, transform_all finds every required column in them,
\* returns normally and writes the output artifact.
C10_FetchedFilesPassSchema ==
    (last.op = "transform_all" /\ InputsExist)
        => (last.raised = "none" /\ outFile.exists)
====
